---- MODULE Spec2Model ----
(***************************************************************************)
(* A model of the IoT weather pipeline: the MQTT gateway that appends     *)
(* readings to data/raw/weather_data.csv, the dashboard's MQTT callback   *)
(* and its five-element live buffer, the dashboard's poll loop that reads *)
(* the CSV file and the buffer, and the training script.                  *)
(*                                                                         *)
(* The CSV file is modelled at the level of its text: a sequence of field *)
(* tokens and line terminators, written by to_csv and parsed by read_csv. *)
(***************************************************************************)
EXTENDS Integers, Sequences, FiniteSets, TLC

(***************************************************************************)
(* Bounds of the model.                                                    *)
(***************************************************************************)
\* messages delivered to the gateway callbacks in one behaviour
MaxMsgs == 2
\* messages delivered to the dashboard callback in one behaviour
MaxPush == 7
\* gateway processes that run the callback concurrently (SpecConc)
NumGateways == 2
\* rows already in the store when the operator turns to training (SpecTraining)
MaxStored == 5

(***************************************************************************)
(* Values.                                                                 *)
(***************************************************************************)
\* Python's None (a JSON null, or dict.get on an absent key)
None == "None"
\* marks a key that the JSON object does not have
Missing == "<missing>"
\* an empty CSV field; read_csv reads it as NaN
Empty == ""
\* the line terminator to_csv writes after every row
NL == "\n"

\* datetime.utcnow().isoformat() at the successive receipt instants
Stamps ==
  << "2024-01-01T00:00:01", "2024-01-01T00:00:02", "2024-01-01T00:00:03",
     "2024-01-01T00:00:04", "2024-01-01T00:00:05", "2024-01-01T00:00:06",
     "2024-01-01T00:00:07", "2024-01-01T00:00:08" >>

IsoFormat(t) == Stamps[t]

\* pd.to_datetime(..., errors="coerce") on one value: its instant, NaT (0) when
\* the text is no timestamp
NaT == 0

ParseTime(s) ==
  IF \E i \in 1..Len(Stamps) : Stamps[i] = s
  THEN CHOOSE i \in 1..Len(Stamps) : Stamps[i] = s
  ELSE NaT

\* the texts pd.to_numeric accepts
NumStrings == {"21.5", "60", "1012", "3.2", "0"}

\* the columns of the store, in file order
Columns ==
  << "timestamp", "temperature", "humidity", "pressure", "wind_speed",
     "rainfall", "location" >>

Keys == {Columns[i] : i \in 1..Len(Columns)}

\* the columns train_model.py requires
FEATURES == <<"humidity", "pressure", "wind_speed", "rainfall">>

TARGET == "temperature"

(***************************************************************************)
(* Inbound MQTT payloads: whether the bytes are UTF-8, what json.loads     *)
(* makes of the text, and the keys of the object when it is one.           *)
(***************************************************************************)
NoKeys == [k \in Keys |-> Missing]

\* bytes that are not valid UTF-8
BadBytes == [utf8 |-> FALSE, json |-> "invalid", obj |-> NoKeys]

\* UTF-8 text that is not JSON
PlainText == [utf8 |-> TRUE, json |-> "invalid", obj |-> NoKeys]

\* JSON that is not an object
JsonArray == [utf8 |-> TRUE, json |-> "array", obj |-> NoKeys]

\* what the simulator publishes: all seven keys
FullReading ==
  [utf8 |-> TRUE, json |-> "object",
   obj |-> [k \in Keys |->
      CASE k = "timestamp" -> Stamps[1]
        [] k = "temperature" -> "21.5"
        [] k = "humidity" -> "60"
        [] k = "pressure" -> "1012"
        [] k = "wind_speed" -> "3.2"
        [] k = "rainfall" -> "0"
        [] OTHER -> "A"]]

\* the five measurements, without timestamp and location
BareReading ==
  [utf8 |-> TRUE, json |-> "object",
   obj |-> [k \in Keys |->
      IF k \in {"timestamp", "location"} THEN Missing ELSE FullReading.obj[k]]]

\* an object with a timestamp that is no time, no temperature, a null humidity
\* and a null location
SparseReading ==
  [utf8 |-> TRUE, json |-> "object",
   obj |-> [k \in Keys |->
      CASE k = "timestamp" -> "not-a-time"
        [] k = "temperature" -> Missing
        [] k \in {"humidity", "location"} -> None
        [] OTHER -> FullReading.obj[k]]]

\* a reading whose humidity is text that is no number
TextReading ==
  [utf8 |-> TRUE, json |-> "object",
   obj |-> [k \in Keys |-> IF k = "humidity" THEN "high" ELSE FullReading.obj[k]]]

Objects == {FullReading, BareReading, SparseReading}

Payloads == {BadBytes, PlainText, JsonArray} \cup Objects

\* the payloads the dashboard callback is fed
DashPayloads == {BadBytes, PlainText, JsonArray, FullReading}

(***************************************************************************)
(* Pure functions of the gateway and of pandas.                            *)
(***************************************************************************)
\* msg.payload.decode("utf-8") followed by json.loads: "ok" with a dict,
\* or the exception raised
DecodeJson(p) ==
  IF ~p.utf8 THEN "UnicodeDecodeError"
  ELSE IF p.json = "invalid" THEN "JSONDecodeError"
  ELSE "ok"

\* dict.get(key): None when the key is absent
Get(obj, k) == IF obj[k] = Missing THEN None ELSE obj[k]

\* dict.get(key) in place of dict.get(key, default): the default is forgotten
GetOrNone(obj, k, default) == IF obj[k] = Missing THEN None ELSE obj[k]

\* dict.get(key, default)
GetOr(obj, k, default) == IF obj[k] = Missing THEN default ELSE obj[k]

\* the record on_message builds from a decoded object at receipt instant now
BuildRecord(obj, now) ==
  [k \in Keys |->
     CASE k = "timestamp" -> GetOr(obj, k, IsoFormat(now))
       [] k = "location" -> GetOr(obj, k, "unknown")
       [] OTHER -> Get(obj, k)]

\* one value as to_csv writes it: None is written as the empty field
CsvField(v) == IF v = None THEN Empty ELSE v

\* one line of the file: the fields and the terminator
FormatLine(fields) == fields \o <<NL>>

HeaderLine == FormatLine(Columns)

\* a row of only the values that are present
RowOfSkippingNone(record) ==
  SelectSeq([i \in 1..Len(Columns) |-> record[Columns[i]]], LAMBDA v : v # None)

\* the values of a record in column order, as CSV fields
RowOf(record) == [i \in 1..Len(Columns) |-> CsvField(record[Columns[i]])]

\* to_csv without its header argument: the header is written every time
ToCsvAlwaysHeader(record, header) == HeaderLine \o FormatLine(RowOf(record))

\* the text DataFrame([record]).to_csv(mode="a", header=header, index=False) writes
ToCsv(record, header) ==
  (IF header THEN HeaderLine ELSE <<>>) \o FormatLine(RowOf(record))

\* an unbuffered handle: every field is a write of its own
WriteUnbuffered(text) == [i \in 1..Len(text) |-> <<text[i]>>]

\* the write calls that text reaches the file in: Python's buffered text
\* layer hands the whole text to the file in one write when the handle closes
WriteChunks(text) == <<text>>

\* the file text split into lines at the terminators; text after the last
\* terminator is a last, unterminated line
RECURSIVE SplitLines(_)
SplitLines(text) ==
  IF text = <<>> THEN <<>>
  ELSE IF \A i \in 1..Len(text) : text[i] # NL THEN <<text>>
  ELSE LET i == CHOOSE j \in 1..Len(text) :
                  text[j] = NL /\ \A k \in 1..(j - 1) : text[k] # NL
       IN  <<SubSeq(text, 1, i - 1)>> \o SplitLines(SubSeq(text, i + 1, Len(text)))

\* a line with fewer fields than the header is filled up with NaN
Pad(line, n) == [i \in 1..n |-> IF i <= Len(line) THEN line[i] ELSE Empty]

\* pd.read_csv(DATA_FILE): the first line names the columns, every other line
\* is a row; an empty file and a row with too many fields raise. A column is
\* numeric when every value in it is a number or NaN, and holds strings otherwise
ReadCsv(text) ==
  LET lines == SplitLines(text) IN
  IF lines = <<>>
  THEN [err |-> "EmptyDataError", columns |-> <<>>, rows |-> <<>>, strcols |-> {}]
  ELSE IF \E i \in 2..Len(lines) : Len(lines[i]) > Len(lines[1])
  THEN [err |-> "ParserError", columns |-> <<>>, rows |-> <<>>, strcols |-> {}]
  ELSE LET rows == [i \in 1..(Len(lines) - 1) |-> Pad(lines[i + 1], Len(lines[1]))] IN
       [err |-> "none", columns |-> lines[1], rows |-> rows,
        strcols |-> {c \in 1..Len(lines[1]) :
                       \E i \in 1..Len(rows) : rows[i][c] \notin NumStrings \cup {Empty}}]

HasColumn(frame, name) == \E i \in 1..Len(frame.columns) : frame.columns[i] = name

ColumnIndex(frame, name) ==
  CHOOSE i \in 1..Len(frame.columns) :
    frame.columns[i] = name /\ \A j \in 1..(i - 1) : frame.columns[j] # name

\* df[name] of one row
Cell(frame, row, name) == row[ColumnIndex(frame, name)]

\* the frame load_data returns when the file does not exist
EmptyFrame == [err |-> "none", columns |-> Columns, rows |-> <<>>, strcols |-> {}]

\* load_data once the file is known to exist: read_csv, to_datetime with
\* errors="coerce" and dropna on the timestamp
LoadFrame(text) ==
  LET frame == ReadCsv(text) IN
  IF frame.err # "none" THEN frame
  ELSE IF ~HasColumn(frame, "timestamp")
  THEN [err |-> "KeyError", columns |-> <<>>, rows |-> <<>>, strcols |-> {}]
  ELSE [frame EXCEPT !.rows =
          SelectSeq(frame.rows,
                    LAMBDA r : ParseTime(Cell(frame, r, "timestamp")) # NaT)]

\* load_data as one read of the store
load_data(file) == IF file.exists THEN LoadFrame(file.text) ELSE EmptyFrame

\* the exception on_message catches for a payload, "ok" when there is none:
\* decode and json.loads raise, and so does .get on a value that is no dict
OnMessageError(p) ==
  IF DecodeJson(p) # "ok" THEN DecodeJson(p)
  ELSE IF p.json # "object" THEN "AttributeError"
  ELSE "ok"

(***************************************************************************)
(* State.                                                                  *)
(***************************************************************************)
VARIABLES
  DATA_FILE,   \* the store: whether the file exists, and its text
  gwPc,        \* where each gateway process is
  gwPending,   \* per gateway: the writes of the open handle still to reach the file
  gwRecord,    \* per gateway: the record its last on_message built
  gwOut,       \* per gateway: what its last on_message printed
  delivered,   \* history: the messages delivered to the gateways, in order
  mqtt_buffer, \* the dashboard's global list of the latest payloads
  cbPc,        \* where the dashboard's MQTT thread is in on_mqtt_message
  cbDelivered, \* history: the payloads delivered to on_mqtt_message, in order
  pushed,      \* history: the values on_mqtt_message appended, in order
  pollPc,      \* where the dashboard's realtime loop is
  df,          \* the frame load_data returned in this tick
  readLines,   \* the lines of the file the last read_csv of the loop saw
  predictor,   \* whether this tick has a TemperaturePredictor
  latest,      \* the row this tick shows as the latest
  mqtt_messages, \* st.session_state.mqtt_messages: the loop's copy of the buffer
  panels,      \* what this tick has put on the page so far
  MODEL_PATH,  \* the regression artifact: whether it exists, and what was fitted
  trainOut,    \* how the last run of train_model.py ended
  trainNotice  \* what the train button told the operator about its last run

gwVars == <<gwPc, gwPending, gwRecord, gwOut, delivered>>

cbVars == <<mqtt_buffer, cbPc, cbDelivered, pushed>>

pollVars == <<pollPc, df, readLines, predictor, latest, mqtt_messages, panels>>

trainVars == <<MODEL_PATH, trainOut, trainNotice>>

vars == <<DATA_FILE, gwVars, cbVars, pollVars, trainVars>>

Gateways == 1..NumGateways

NoFile == [exists |-> FALSE, text |-> <<>>]

NoModel == [exists |-> FALSE, fit |-> <<>>]

\* no gateway is inside ensure_data_file or inside to_csv
Quiescent == \A g \in Gateways : gwPc[g] \in {"main", "idle"}

\* before main() of the gateway has run: no store yet
Init ==
  /\ DATA_FILE = NoFile
  /\ gwPc = [g \in Gateways |-> "main"]
  /\ gwPending = [g \in Gateways |-> <<>>]
  /\ gwRecord = [g \in Gateways |-> NoKeys]
  /\ gwOut = [g \in Gateways |-> "none"]
  /\ delivered = <<>>
  /\ mqtt_buffer = <<>>
  /\ cbPc = "idle"
  /\ cbDelivered = <<>>
  /\ pushed = <<>>
  /\ pollPc = "tick"
  /\ df = EmptyFrame
  /\ readLines = <<>>
  /\ predictor = FALSE
  /\ latest = <<>>
  /\ mqtt_messages = <<>>
  /\ panels = {}
  /\ MODEL_PATH = NoModel
  /\ trainOut = "none"
  /\ trainNotice = "none"

(***************************************************************************)
(* The gateway: ensure_data_file, then on_message for every message.       *)
(***************************************************************************)
\* ensure_data_file, the test of line 19
EnsureCheck(g) ==
  /\ gwPc[g] = "main"
  /\ gwPc' = [gwPc EXCEPT ![g] =
                IF DATA_FILE.exists THEN "idle" ELSE "ensure_open"]
  /\ UNCHANGED <<DATA_FILE, gwPending, gwRecord, gwOut, delivered>>
  /\ UNCHANGED <<cbVars, pollVars, trainVars>>

\* ensure_data_file, to_csv opening the file for writing: created, or truncated
EnsureOpen(g) ==
  /\ gwPc[g] = "ensure_open"
  /\ DATA_FILE' = [exists |-> TRUE, text |-> <<>>]
  /\ gwPc' = [gwPc EXCEPT ![g] = "ensure_write"]
  /\ UNCHANGED <<gwPending, gwRecord, gwOut, delivered>>
  /\ UNCHANGED <<cbVars, pollVars, trainVars>>

\* ensure_data_file, the header of the empty frame written from offset 0
EnsureWrite(g) ==
  /\ gwPc[g] = "ensure_write"
  /\ DATA_FILE' = [DATA_FILE EXCEPT !.text =
        HeaderLine \o SubSeq(DATA_FILE.text, Len(HeaderLine) + 1, Len(DATA_FILE.text))]
  /\ gwPc' = [gwPc EXCEPT ![g] = "idle"]
  /\ UNCHANGED <<gwPending, gwRecord, gwOut, delivered>>
  /\ UNCHANGED <<cbVars, pollVars, trainVars>>

\* header=False
NeedHeaderNever(file) == FALSE

\* header=not DATA_FILE.exists(), evaluated before to_csv is called
NeedHeader(file) == ~file.exists

\* on_message up to the call of to_csv: decode, build the record, evaluate the
\* header argument; any exception is caught and printed, and the handler returns
GwReceive(g, p) ==
  /\ gwPc[g] = "idle"
  /\ Len(delivered) < MaxMsgs
  /\ LET now == Len(delivered) + 1 IN
     /\ delivered' = Append(delivered, [g |-> g, p |-> p, at |-> now])
     /\ IF OnMessageError(p) = "ok"
        THEN /\ gwRecord' = [gwRecord EXCEPT ![g] = BuildRecord(p.obj, now)]
             /\ gwPending' = [gwPending EXCEPT ![g] =
                  WriteChunks(ToCsv(BuildRecord(p.obj, now), NeedHeader(DATA_FILE)))]
             /\ gwPc' = [gwPc EXCEPT ![g] = "open"]
             /\ UNCHANGED gwOut
        ELSE /\ gwOut' = [gwOut EXCEPT ![g] = "error"]
             /\ UNCHANGED <<gwRecord, gwPending, gwPc>>
  /\ UNCHANGED DATA_FILE
  /\ UNCHANGED <<cbVars, pollVars, trainVars>>

\* to_csv opening the file in mode "a": created empty when it does not exist
GwOpen(g) ==
  /\ gwPc[g] = "open"
  /\ DATA_FILE' = [exists |-> TRUE, text |-> DATA_FILE.text]
  /\ gwPc' = [gwPc EXCEPT ![g] = "write"]
  /\ UNCHANGED <<gwPending, gwRecord, gwOut, delivered>>
  /\ UNCHANGED <<cbVars, pollVars, trainVars>>

\* one write of the open handle reaching the end of the file; after the last
\* one the handle is closed and on_message prints the record
GwWrite(g) ==
  /\ gwPc[g] = "write"
  /\ DATA_FILE' = [DATA_FILE EXCEPT !.text = DATA_FILE.text \o Head(gwPending[g])]
  /\ gwPending' = [gwPending EXCEPT ![g] = Tail(gwPending[g])]
  /\ IF Len(gwPending[g]) = 1
     THEN /\ gwPc' = [gwPc EXCEPT ![g] = "idle"]
          /\ gwOut' = [gwOut EXCEPT ![g] = "stored"]
     ELSE UNCHANGED <<gwPc, gwOut>>
  /\ UNCHANGED <<gwRecord, delivered>>
  /\ UNCHANGED <<cbVars, pollVars, trainVars>>

\* the gateway process is stopped and started again: main() runs anew
GatewayRestart(g) ==
  /\ gwPc[g] = "idle"
  /\ gwPc' = [gwPc EXCEPT ![g] = "main"]
  /\ UNCHANGED <<DATA_FILE, gwPending, gwRecord, gwOut, delivered>>
  /\ UNCHANGED <<cbVars, pollVars, trainVars>>

\* the store file is deleted from outside, between two calls of the gateway
DeleteFile ==
  /\ DATA_FILE.exists
  /\ Quiescent
  /\ DATA_FILE' = NoFile
  /\ UNCHANGED <<gwPc, gwPending, gwRecord, gwOut, delivered>>
  /\ UNCHANGED <<cbVars, pollVars, trainVars>>

(***************************************************************************)
(* The dashboard's MQTT thread: on_mqtt_message.                           *)
(***************************************************************************)
\* the capacity of the live buffer: mqtt_buffer[-5:]
K == 5

\* s[:n]
FirstN(s, n) == IF Len(s) <= n THEN s ELSE SubSeq(s, 1, n)

\* s[-n:]
LastN(s, n) == IF Len(s) <= n THEN s ELSE SubSeq(s, Len(s) - n + 1, Len(s))

\* the value on_mqtt_message appends: the parsed JSON, or in the bare except
\* the decoded text kept as a string
Parsed(p) == [opaque |-> FALSE, payload |-> p]

Opaque(p) == [opaque |-> TRUE, payload |-> p]

\* the exception that leaves on_mqtt_message, "none" when there is none: the
\* bare except decodes the payload a second time, outside any try
EscapesCallback(p) == IF p.utf8 THEN "none" ELSE "UnicodeDecodeError"

\* on_mqtt_message up to mqtt_buffer.append(payload); an exception that leaves
\* the callback ends the client's network thread
CbReceive(p) ==
  /\ cbPc = "idle"
  /\ Len(cbDelivered) < MaxPush
  /\ cbDelivered' = Append(cbDelivered, p)
  /\ IF EscapesCallback(p) # "none"
     THEN /\ cbPc' = "dead"
          /\ UNCHANGED <<mqtt_buffer, pushed>>
     ELSE LET payload == IF DecodeJson(p) = "ok" THEN Parsed(p) ELSE Opaque(p) IN
          /\ mqtt_buffer' = Append(mqtt_buffer, payload)
          /\ pushed' = Append(pushed, payload)
          /\ cbPc' = "slice"
  /\ UNCHANGED <<DATA_FILE, gwVars, pollVars, trainVars>>

\* mqtt_buffer = mqtt_buffer[-5:]
CbSlice ==
  /\ cbPc = "slice"
  /\ mqtt_buffer' = LastN(mqtt_buffer, K)
  /\ cbPc' = "idle"
  /\ UNCHANGED <<cbDelivered, pushed>>
  /\ UNCHANGED <<DATA_FILE, gwVars, pollVars, trainVars>>

(***************************************************************************)
(* The dashboard's realtime loop.                                          *)
(***************************************************************************)
\* load_data, the test of line 24; a new tick starts with nothing shown
PollCheck ==
  /\ pollPc = "tick"
  /\ panels' = {}
  /\ IF DATA_FILE.exists
     THEN /\ pollPc' = "read"
          /\ UNCHANGED <<df, readLines>>
     ELSE /\ pollPc' = "predictor"
          /\ df' = EmptyFrame
          /\ readLines' = <<>>
  /\ UNCHANGED <<predictor, latest, mqtt_messages>>
  /\ UNCHANGED <<DATA_FILE, gwVars, cbVars, trainVars>>

\* load_data, lines 30 to 33; what read_csv or the column access raises leaves
\* the loop
PollRead ==
  /\ pollPc = "read"
  /\ IF ~DATA_FILE.exists
     THEN /\ pollPc' = "crashed"
          /\ df' = [EmptyFrame EXCEPT !.err = "FileNotFoundError"]
          /\ readLines' = <<>>
     ELSE /\ df' = LoadFrame(DATA_FILE.text)
          /\ readLines' = SplitLines(DATA_FILE.text)
          /\ pollPc' = IF LoadFrame(DATA_FILE.text).err = "none"
                       THEN "predictor" ELSE "crashed"
  /\ UNCHANGED <<predictor, latest, mqtt_messages, panels>>
  /\ UNCHANGED <<DATA_FILE, gwVars, cbVars, trainVars>>

\* a loop that waits only when the file has no data line
PollPredictorFileEmpty ==
  /\ pollPc = "predictor"
  /\ predictor' = MODEL_PATH.exists
  /\ IF Len(readLines) <= 1
     THEN /\ panels' = panels \cup {"waiting"}
          /\ pollPc' = "tick"
     ELSE /\ pollPc' = "serve"
          /\ UNCHANGED panels
  /\ UNCHANGED <<df, readLines, latest, mqtt_messages>>
  /\ UNCHANGED <<DATA_FILE, gwVars, cbVars, trainVars>>

\* lines 110 to 118: the predictor of this tick, and the empty-frame branch
PollPredictor ==
  /\ pollPc = "predictor"
  /\ predictor' = MODEL_PATH.exists
  /\ IF df.rows = <<>>
     THEN /\ panels' = panels \cup {"waiting"}
          /\ pollPc' = "tick"
     ELSE /\ pollPc' = "serve"
          /\ UNCHANGED panels
  /\ UNCHANGED <<df, readLines, latest, mqtt_messages>>
  /\ UNCHANGED <<DATA_FILE, gwVars, cbVars, trainVars>>

\* the rows of the frame with the greatest timestamp
NewestRows(frame) ==
  {i \in 1..Len(frame.rows) :
     \A j \in 1..Len(frame.rows) :
        ParseTime(Cell(frame, frame.rows[j], "timestamp"))
          <= ParseTime(Cell(frame, frame.rows[i], "timestamp"))}

\* f"{latest[c]:.2f}" raises on a string: the value of a column that holds
\* strings, unless it is NaN
FormatRaises(frame, row, name) ==
  /\ HasColumn(frame, name)
  /\ ColumnIndex(frame, name) \in frame.strcols
  /\ Cell(frame, row, name) # Empty

\* predict_temp raises when a feature is NaN or no number
PredictRaises(frame, row) ==
  \E i \in 1..Len(FEATURES) : Cell(frame, row, FEATURES[i]) \notin NumStrings

\* lines 120 to 181: the latest row, the metrics, the charts and the two
\* prediction panels; only the prediction panels catch what they raise
PollServe ==
  /\ pollPc = "serve"
  /\ \E i \in NewestRows(df) :
       /\ latest' = df.rows[i]
       /\ IF \E c \in 1..Len(FEATURES) : FormatRaises(df, df.rows[i], FEATURES[c])
          THEN /\ pollPc' = "crashed"
               /\ UNCHANGED panels
          ELSE /\ pollPc' = "viewer"
               /\ panels' = panels \cup {"metrics", "charts"}
                    \cup (IF ~predictor THEN {}
                          ELSE {IF \E j \in 1..Len(df.rows) : PredictRaises(df, df.rows[j])
                                THEN "graph error" ELSE "forecast",
                                IF PredictRaises(df, df.rows[i])
                                     \/ FormatRaises(df, df.rows[i], TARGET)
                                THEN "prediction error" ELSE "prediction"})
  /\ UNCHANGED <<df, readLines, predictor, mqtt_messages>>
  /\ UNCHANGED <<DATA_FILE, gwVars, cbVars, trainVars>>

\* lines 184 to 191: the copy of the live buffer that is shown
PollViewer ==
  /\ pollPc = "viewer"
  /\ mqtt_messages' = mqtt_buffer
  /\ panels' = panels \cup {"viewer"}
  /\ pollPc' = "whatif"
  /\ UNCHANGED <<df, readLines, predictor, latest>>
  /\ UNCHANGED <<DATA_FILE, gwVars, cbVars, trainVars>>

\* lines 193 to 208: the what-if prediction from the four sliders, then sleep
PollWhatIf ==
  /\ pollPc = "whatif"
  /\ panels' = panels \cup (IF predictor THEN {"whatif"} ELSE {})
  /\ pollPc' = "tick"
  /\ UNCHANGED <<df, readLines, predictor, latest, mqtt_messages>>
  /\ UNCHANGED <<DATA_FILE, gwVars, cbVars, trainVars>>

(***************************************************************************)
(* train_model.py.                                                         *)
(***************************************************************************)
\* the rows a model is fitted on need at least this many
MinRows == 5

\* expected_columns of line 31
ExpectedColumns == {"timestamp", TARGET, "device_id"} \cup {FEATURES[i] : i \in 1..Len(FEATURES)}

\* to_numeric with errors="coerce" and dropna over the features and the target
NumericRows(frame) ==
  SelectSeq(frame.rows,
            LAMBDA r : /\ Cell(frame, r, TARGET) \in NumStrings
                       /\ \A i \in 1..Len(FEATURES) : Cell(frame, r, FEATURES[i]) \in NumStrings)

\* how main() of train_model.py ends on the store as it is
TrainResult(file) ==
  IF ~file.exists THEN "FileNotFoundError"
  ELSE LET frame == ReadCsv(file.text) IN
       IF frame.err # "none" THEN frame.err
       ELSE IF \E c \in ExpectedColumns : ~HasColumn(frame, c) THEN "ColumnMismatch"
       ELSE IF Len(NumericRows(frame)) < MinRows THEN "NotEnoughData"
       ELSE "saved"

\* one run of train_model.py: the model is dumped only at the end of a run
\* that raised nothing
TrainModel ==
  /\ trainOut' = TrainResult(DATA_FILE)
  /\ MODEL_PATH' = IF TrainResult(DATA_FILE) = "saved"
                   THEN [exists |-> TRUE, fit |-> NumericRows(ReadCsv(DATA_FILE.text))]
                   ELSE MODEL_PATH
  /\ UNCHANGED trainNotice
  /\ UNCHANGED <<DATA_FILE, gwVars, cbVars, pollVars>>

\* the "Train on new data" button, lines 44 to 53: the click reruns the script,
\* subprocess.run waits for train_model.py, st.success follows whatever the
\* run returned (returncode and stderr are not read), and st.rerun runs the
\* script again from its first line: a new mqtt_buffer, a new client, empty
\* placeholders, and the realtime loop from its start
TrainButton ==
  /\ trainOut' = TrainResult(DATA_FILE)
  /\ MODEL_PATH' = IF TrainResult(DATA_FILE) = "saved"
                   THEN [exists |-> TRUE, fit |-> NumericRows(ReadCsv(DATA_FILE.text))]
                   ELSE MODEL_PATH
  /\ trainNotice' = "success"
  /\ mqtt_buffer' = <<>>
  /\ cbPc' = "idle"
  /\ cbDelivered' = <<>>
  /\ pushed' = <<>>
  /\ pollPc' = "tick"
  /\ df' = EmptyFrame
  /\ readLines' = <<>>
  /\ predictor' = FALSE
  /\ latest' = <<>>
  /\ panels' = {}
  /\ UNCHANGED mqtt_messages
  /\ UNCHANGED <<DATA_FILE, gwVars>>

(***************************************************************************)
(* The gateway as deployed: one process, its store deleted and the process *)
(* restarted at will.                                                      *)
(***************************************************************************)
Next ==
  \/ EnsureCheck(1)
  \/ EnsureOpen(1)
  \/ EnsureWrite(1)
  \/ \E p \in Payloads : GwReceive(1, p)
  \/ GwOpen(1)
  \/ GwWrite(1)
  \/ GatewayRestart(1)
  \/ DeleteFile

Spec == Init /\ [][Next]_vars

(***************************************************************************)
(* The pipeline without outside interference: the gateway, the dashboard's *)
(* realtime loop and the training script, and nobody deleting the store.   *)
(***************************************************************************)
NextAppendOnly ==
  \/ EnsureCheck(1)
  \/ EnsureOpen(1)
  \/ EnsureWrite(1)
  \/ \E p \in Payloads : GwReceive(1, p)
  \/ GwOpen(1)
  \/ GwWrite(1)
  \/ GatewayRestart(1)
  \/ PollCheck
  \/ PollRead
  \/ PollPredictor
  \/ PollServe
  \/ PollViewer
  \/ PollWhatIf
  \/ TrainModel

SpecAppendOnly == Init /\ [][NextAppendOnly]_vars

(***************************************************************************)
(* Concurrent appends: several gateways, each past ensure_data_file, run   *)
(* on_message at the same time while the dashboard reads the store. The    *)
(* store is as main() left it, or was deleted since.                       *)
(***************************************************************************)
InitConc ==
  /\ DATA_FILE \in {NoFile, [exists |-> TRUE, text |-> HeaderLine]}
  /\ gwPc = [g \in Gateways |-> "idle"]
  /\ gwPending = [g \in Gateways |-> <<>>]
  /\ gwRecord = [g \in Gateways |-> NoKeys]
  /\ gwOut = [g \in Gateways |-> "none"]
  /\ delivered = <<>>
  /\ mqtt_buffer = <<>>
  /\ cbPc = "idle"
  /\ cbDelivered = <<>>
  /\ pushed = <<>>
  /\ pollPc = "tick"
  /\ df = EmptyFrame
  /\ readLines = <<>>
  /\ predictor = FALSE
  /\ latest = <<>>
  /\ mqtt_messages = <<>>
  /\ panels = {}
  /\ MODEL_PATH = NoModel
  /\ trainOut = "none"
  /\ trainNotice = "none"

NextConc ==
  \/ \E g \in Gateways, p \in Payloads : GwReceive(g, p)
  \/ \E g \in Gateways : GwOpen(g)
  \/ \E g \in Gateways : GwWrite(g)
  \/ PollCheck
  \/ PollRead
  \/ PollPredictor
  \/ PollServe
  \/ PollViewer
  \/ PollWhatIf

SpecConc == InitConc /\ [][NextConc]_vars

(***************************************************************************)
(* The dashboard: its MQTT thread and its realtime loop, over a store that *)
(* the gateway has put one reading in.                                     *)
(***************************************************************************)
InitServing ==
  /\ DATA_FILE = [exists |-> TRUE,
                  text |-> HeaderLine \o ToCsv(BuildRecord(FullReading.obj, 1), FALSE)]
  /\ gwPc = [g \in Gateways |-> "idle"]
  /\ gwPending = [g \in Gateways |-> <<>>]
  /\ gwRecord = [g \in Gateways |->
                   IF g = 1 THEN BuildRecord(FullReading.obj, 1) ELSE NoKeys]
  /\ gwOut = [g \in Gateways |-> IF g = 1 THEN "stored" ELSE "none"]
  /\ delivered = <<[g |-> 1, p |-> FullReading, at |-> 1]>>
  /\ mqtt_buffer = <<>>
  /\ cbPc = "idle"
  /\ cbDelivered = <<>>
  /\ pushed = <<>>
  /\ pollPc = "tick"
  /\ df = EmptyFrame
  /\ readLines = <<>>
  /\ predictor = FALSE
  /\ latest = <<>>
  /\ mqtt_messages = <<>>
  /\ panels = {}
  /\ MODEL_PATH = NoModel
  /\ trainOut = "none"
  /\ trainNotice = "none"

NextBuffer ==
  \/ \E p \in DashPayloads : CbReceive(p)
  \/ CbSlice
  \/ PollCheck
  \/ PollRead
  \/ PollPredictor
  \/ PollServe
  \/ PollViewer
  \/ PollWhatIf

SpecBuffer == InitServing /\ [][NextBuffer]_vars

(***************************************************************************)
(* Ingestion: the gateway's callback and the dashboard's callback, each    *)
(* fed its messages.                                                       *)
(***************************************************************************)
NextIngest ==
  \/ EnsureCheck(1)
  \/ EnsureOpen(1)
  \/ EnsureWrite(1)
  \/ \E p \in Payloads : GwReceive(1, p)
  \/ GwOpen(1)
  \/ GwWrite(1)
  \/ \E p \in DashPayloads : CbReceive(p)
  \/ CbSlice

SpecIngest == Init /\ [][NextIngest]_vars

(***************************************************************************)
(* Training: the gateway has stored some readings and is idle; the         *)
(* operator runs train_model.py, from the shell or with the dashboard's    *)
(* button, and may delete the store, while the realtime loop goes on. The  *)
(* store has the header the gateway writes, or that header with the        *)
(* device_id column train_model.py asks for.                               *)
(***************************************************************************)
\* the header line of a dataset that has every column of expected_columns
LabelledHeader == FormatLine(Columns \o <<"device_id">>)

\* the readings the gateway stored: what the simulator sends, a reading with
\* values missing, and a reading with a value that is text
StoredKinds == {FullReading, SparseReading, TextReading}

\* the text the first n of the messages appended to the store
RECURSIVE Appended(_, _)
Appended(msgs, n) ==
  IF n = 0 THEN <<>>
  ELSE Appended(msgs, n - 1) \o ToCsv(BuildRecord(msgs[n].obj, n), FALSE)

InitTraining ==
  /\ \E n \in 0..MaxStored : \E msgs \in [1..n -> StoredKinds] :
       \E header \in {HeaderLine, LabelledHeader} :
         /\ DATA_FILE = [exists |-> TRUE, text |-> header \o Appended(msgs, n)]
         /\ delivered = [i \in 1..n |-> [g |-> 1, p |-> msgs[i], at |-> i]]
         /\ gwRecord = [g \in Gateways |->
                          IF g = 1 /\ n > 0 THEN BuildRecord(msgs[n].obj, n) ELSE NoKeys]
         /\ gwOut = [g \in Gateways |-> IF g = 1 /\ n > 0 THEN "stored" ELSE "none"]
  /\ gwPc = [g \in Gateways |-> "idle"]
  /\ gwPending = [g \in Gateways |-> <<>>]
  /\ mqtt_buffer = <<>>
  /\ cbPc = "idle"
  /\ cbDelivered = <<>>
  /\ pushed = <<>>
  /\ pollPc = "tick"
  /\ df = EmptyFrame
  /\ readLines = <<>>
  /\ predictor = FALSE
  /\ latest = <<>>
  /\ mqtt_messages = <<>>
  /\ panels = {}
  /\ MODEL_PATH = NoModel
  /\ trainOut = "none"
  /\ trainNotice = "none"

NextTraining ==
  \/ TrainModel
  \/ TrainButton
  \/ DeleteFile
  \/ PollCheck
  \/ PollRead
  \/ PollPredictor
  \/ PollServe
  \/ PollViewer
  \/ PollWhatIf

SpecTraining == InitTraining /\ [][NextTraining]_vars

(***************************************************************************)
(* What the claims speak of.                                               *)
(***************************************************************************)
\* the lines of the store, none when there is no file
FileLines(file) == IF file.exists THEN SplitLines(file.text) ELSE <<>>

\* the lines after the first
DataLines(file) ==
  IF FileLines(file) = <<>> THEN <<>> ELSE Tail(FileLines(file))

IsPrefix(s, t) == Len(s) <= Len(t) /\ SubSeq(t, 1, Len(s)) = s

Last(s) == s[Len(s)]

\* the row a decoded object is to be stored as, from the object itself
ExpectedRow(obj, at) ==
  [i \in 1..Len(Columns) |->
     LET k == Columns[i] IN
     IF obj[k] = Missing
     THEN (IF k = "timestamp" THEN Stamps[at]
           ELSE IF k = "location" THEN "unknown" ELSE Empty)
     ELSE IF obj[k] = None THEN Empty ELSE obj[k]]

(***************************************************************************)
(* The claims.                                                             *)
(***************************************************************************)
\* C1: every copy of the live buffer that the realtime loop takes has at most
\* K = 5 elements, however the copy interleaves with the callback's append
\* and its cut to the last five.
C1_SnapshotWithinCapacity == Len(mqtt_messages) <= K

\* C2: a copy of the live buffer taken while the callback is between two pushes
\* is the last min(n, 5) of the n values pushed so far, oldest first.
C2_SnapshotIsLastPushed ==
  [][(pollPc = "viewer" /\ pollPc' = "whatif" /\ cbPc \in {"idle", "dead"}) =>
       LET n == Len(pushed)
           m == IF n < 5 THEN n ELSE 5
       IN  /\ Len(mqtt_messages') = m
           /\ \A i \in 1..m : mqtt_messages'[i] = pushed[n - m + i]]_vars

\* C2, witness: a copy taken after seven pushes holds the last five of them
C2_Witness ==
  /\ pollPc = "whatif"
  /\ cbPc = "idle"
  /\ Len(pushed) = 7
  /\ Len(mqtt_messages) = 5
  /\ mqtt_messages = SubSeq(pushed, 3, 7)
  /\ pushed[1] # pushed[3]

\* C3: once N concurrent on_message calls on well-formed payloads have all
\* returned, load_data returns exactly N records, each with its seven fields
\* populated.
C3_ConcurrentAppendsAllRead ==
  (/\ Quiescent
   /\ delivered # <<>>
   /\ \A i \in 1..Len(delivered) : delivered[i].p \in {FullReading, BareReading})
  => LET frame == load_data(DATA_FILE) IN
     /\ frame.err = "none"
     /\ Len(frame.rows) = Len(delivered)
     /\ \A i \in 1..Len(frame.rows) :
          /\ Len(frame.rows[i]) = Len(Columns)
          /\ \A c \in 1..Len(Columns) : frame.rows[i][c] # Empty

\* C4: a reader never sees a partly written row: at every instant the file is
\* a sequence of whole lines of seven fields each, and so is every read of
\* the realtime loop, also one taken while an append is under way.
C4_NoPartialRowVisible ==
  /\ DATA_FILE.text = <<>> \/ Last(DATA_FILE.text) = NL
  /\ \A i \in 1..Len(FileLines(DATA_FILE)) : Len(FileLines(DATA_FILE)[i]) = 7
  /\ \A i \in 1..Len(readLines) : Len(readLines[i]) = 7

\* C4, witness: the loop has just read the header and a row while a gateway
\* holds the file open with its row still to be written
C4_Witness ==
  /\ pollPc = "predictor"
  /\ \E g \in Gateways : gwPc[g] = "write"
  /\ Len(readLines) >= 2
  /\ readLines = FileLines(DATA_FILE)

\* C5: no payload makes a message callback let an exception escape to the MQTT
\* client's thread.
C5_NoExceptionEscapes == cbPc # "dead"

\* C6: a payload that fails JSON decoding leaves the store as it was, and the
\* live buffer gains it as an opaque string.
C6_UndecodableBufferedNotStored ==
  [][/\ (delivered' # delivered /\ DecodeJson(Last(delivered').p) # "ok")
          => DATA_FILE' = DATA_FILE
     /\ (cbDelivered' # cbDelivered /\ DecodeJson(Last(cbDelivered')) # "ok")
          => /\ mqtt_buffer' = Append(mqtt_buffer, Opaque(Last(cbDelivered')))
             /\ pushed' = Append(pushed, Opaque(Last(cbDelivered')))]_vars

\* C7 as claimed: every data row of the store has a timestamp that parses and
\* five numeric measurements.
C7_PersistedRowsValid ==
  \A i \in 1..Len(DataLines(DATA_FILE)) :
    LET line == DataLines(DATA_FILE)[i] IN
    /\ Len(line) = 7
    /\ ParseTime(line[1]) # NaT
    /\ \A c \in 2..6 : line[c] \in NumStrings

\* C7 as amended: every data row of the store has seven fields; no decoded
\* object is rejected; a measurement that is absent or null is written as an
\* empty field and a timestamp is written as supplied, parsable or not.
C7_RowsCompleteNotValidated ==
  /\ [](\A i \in 1..Len(DataLines(DATA_FILE)) : Len(DataLines(DATA_FILE)[i]) = 7)
  /\ [][/\ (delivered' # delivered /\ Last(delivered').p.json = "object")
             => gwPc'[1] = "open"
        /\ (gwPc[1] = "write" /\ gwPc'[1] = "idle")
             => Last(FileLines(DATA_FILE')) =
                  ExpectedRow(Last(delivered).p.obj, Last(delivered).at)]_vars

\* C7, witness: a stored row with a timestamp that is no time and no temperature
C7_Witness ==
  /\ gwOut[1] = "stored"
  /\ gwPc[1] = "idle"
  /\ \E i \in 1..Len(DataLines(DATA_FILE)) :
       /\ DataLines(DATA_FILE)[i][1] = "not-a-time"
       /\ DataLines(DATA_FILE)[i][2] = Empty

\* C8: the record built from a JSON object has the location "unknown" when the
\* object has no location and the supplied one otherwise, the receipt time as
\* timestamp when the object has none and the supplied one otherwise, and the
\* five measurements as supplied, None when absent.
C8_RecordDefaults ==
  (delivered # <<>> /\ OnMessageError(Last(delivered).p) = "ok") =>
    LET d == Last(delivered)
        r == gwRecord[d.g]
    IN  /\ r["location"] =
              (IF d.p.obj["location"] = Missing THEN "unknown" ELSE d.p.obj["location"])
        /\ r["timestamp"] =
              (IF d.p.obj["timestamp"] = Missing THEN Stamps[d.at] ELSE d.p.obj["timestamp"])
        /\ \A k \in Keys \ {"timestamp", "location"} :
              r[k] = (IF d.p.obj[k] = Missing THEN None ELSE d.p.obj[k])

\* C8, witness: the record of a reading without timestamp and location, stored
C8_Witness ==
  /\ delivered # <<>>
  /\ Last(delivered).p = BareReading
  /\ gwOut[1] = "stored"
  /\ gwPc[1] = "idle"
  /\ gwRecord[1]["location"] = "unknown"
  /\ gwRecord[1]["timestamp"] = Stamps[Len(delivered)]
  /\ gwRecord[1]["humidity"] = "60"

\* C9: with nobody deleting the file the store only grows at its end, and
\* between two calls of the gateway its data rows are the rows of the messages
\* decoded into a record so far, one each, in delivery order.
C9_AppendOnlyExactlyOnce ==
  /\ [][IsPrefix(DataLines(DATA_FILE), DataLines(DATA_FILE'))]_vars
  /\ [](gwPc[1] \in {"main", "idle"} =>
          LET stored == SelectSeq(delivered, LAMBDA d : d.p.json = "object") IN
          /\ Len(DataLines(DATA_FILE)) = Len(stored)
          /\ \A i \in 1..Len(stored) :
               DataLines(DATA_FILE)[i] = ExpectedRow(stored[i].p.obj, stored[i].at))

\* C9, witness: two rows stored, then a poll tick and a training run
C9_Witness ==
  /\ Len(DataLines(DATA_FILE)) = 2
  /\ gwPc[1] = "idle"
  /\ pollPc = "whatif"
  /\ Len(df.rows) = 2
  /\ trainOut = "ColumnMismatch"

\* the header, then rows of seven fields that are no header
WellFormedStore(file) ==
  LET lines == FileLines(file) IN
  /\ lines # <<>>
  /\ Last(file.text) = NL
  /\ lines[1] = Columns
  /\ \A i \in 2..Len(lines) : Len(lines[i]) = 7 /\ lines[i] # Columns

\* C10: between the calls of the gateway the file, when it exists, is the header
\* followed by data rows; ensure_data_file leaves an existing file alone; an
\* append to an existing file adds its row and nothing else, and an append to
\* a missing file makes the file the header and the row.
C10_OneHeaderThenRows ==
  /\ []((Quiescent /\ DATA_FILE.exists) => WellFormedStore(DATA_FILE))
  /\ [][/\ (gwPc[1] = "main" /\ gwPc'[1] # "main" /\ DATA_FILE.exists)
             => (DATA_FILE' = DATA_FILE /\ gwPc'[1] = "idle")
        /\ (gwPc[1] = "open" /\ gwPc'[1] = "write" /\ DATA_FILE.exists)
             => DATA_FILE' = DATA_FILE
        /\ (gwPc[1] = "write" /\ gwPc'[1] = "idle")
             => LET row == ExpectedRow(Last(delivered).p.obj, Last(delivered).at) IN
                FileLines(DATA_FILE') =
                  (IF DATA_FILE.text = <<>> THEN <<Columns>> ELSE FileLines(DATA_FILE))
                    \o <<row>>]_vars

\* C10, witness: two readings were stored, the file was deleted in between, and
\* the file is the header and the second reading
C10_Witness ==
  /\ Len(delivered) = 2
  /\ \A i \in 1..2 : delivered[i].p.json = "object"
  /\ gwPc[1] = "idle"
  /\ gwOut[1] = "stored"
  /\ FileLines(DATA_FILE) = <<Columns, ExpectedRow(delivered[2].p.obj, 2)>>

\* C11: load_data never raises: whenever the realtime loop has called it, it
\* returned a frame; the frame is empty when the file was absent, and is
\* otherwise the rows of the file whose timestamp parses, in file order.
C11_LoadDataNeverRaises ==
  /\ df.err = "none"
  /\ pollPc = "predictor" =>
       IF readLines = <<>>
       THEN df.rows = <<>>
       ELSE df.rows =
              SelectSeq([i \in 1..(Len(readLines) - 1) |->
                           Pad(readLines[i + 1], Len(readLines[1]))],
                        LAMBDA r : ParseTime(r[1]) # NaT)

\* C12: when the operator presses the train button and train_model.py fails,
\* the page shows no success message, the artifact is what it was before, and
\* the realtime loop runs on.
C12_RetrainFailureSurfaced ==
  [][(TrainButton /\ TrainResult(DATA_FILE) # "saved") =>
        /\ trainNotice' # "success"
        /\ MODEL_PATH' = MODEL_PATH
        /\ pollPc' = "tick"]_vars

\* one run of train_model.py, from the shell or from the button
Training == TrainModel \/ TrainButton

\* the store is a file whose header is the seven columns the gateway writes
GatewayWritten(file) ==
  /\ FileLines(file) # <<>>
  /\ FileLines(file)[1] = Columns

\* the rows of the store that are left after to_numeric and dropna
ValidRows(file) == NumericRows(ReadCsv(file.text))

\* C13: a run of train_model.py on a store the gateway wrote that has at least
\* five rows with numeric features and target ends with the model fitted on
\* those rows and saved.
C13_GatewayStoreTrains ==
  [][(Training /\ GatewayWritten(DATA_FILE) /\ Len(ValidRows(DATA_FILE)) >= MinRows) =>
        /\ trainOut' = "saved"
        /\ MODEL_PATH' = [exists |-> TRUE, fit |-> ValidRows(DATA_FILE)]]_vars

\* C14: a run of train_model.py on a store with fewer than five rows that are
\* numeric in the features and the target reports that there is not enough
\* data, and leaves the artifact as it was: none made, none overwritten.
C14_FewRowsInsufficientData ==
  [][(Training /\ FileLines(DATA_FILE) # <<>> /\ Len(ValidRows(DATA_FILE)) < MinRows) =>
        /\ trainOut' = "NotEnoughData"
        /\ MODEL_PATH' = MODEL_PATH]_vars

\* the panels that need the predictor
PredictionPanels == {"forecast", "graph error", "prediction", "prediction error", "whatif"}

\* C15: a tick that read a non-empty frame and found no usable artifact goes
\* on: it shows the metrics, the charts and the live buffer, and none of the
\* panels that need the predictor.
C15_MissingModelNotFatal ==
  (pollPc \notin {"read", "predictor"} /\ df.err = "none" /\ df.rows # <<>> /\ ~predictor) =>
     /\ pollPc # "crashed"
     /\ panels \cap PredictionPanels = {}
     /\ pollPc \in {"viewer", "whatif", "tick"} => {"metrics", "charts"} \subseteq panels
     /\ pollPc \in {"whatif", "tick"} => "viewer" \in panels

\* C16: the realtime loop never ends of its own: whatever the store, the
\* artifact and the readings are, no tick leaves the loop with an exception.
C16_LoopNeverEnds == pollPc # "crashed"

\* C17: every tick that has a predictor ends with the what-if prediction on
\* the page, whatever the store and the live buffer hold.
C17_WhatIfEveryTick ==
  (pollPc = "tick" /\ predictor) => "whatif" \in panels

\* C18: a tick waits exactly when the frame it read is empty and serves
\* otherwise: a waiting tick shows the no-data message and nothing else and
\* goes back to the start of the loop; a tick with rows goes on to the panels,
\* and no panel of a serving tick is shown with the no-data message.
C18_WaitingIffEmptySnapshot ==
  /\ [](/\ pollPc \in {"serve", "viewer", "whatif"} =>
             (df.rows # <<>> /\ "waiting" \notin panels)
        /\ "waiting" \in panels =>
             (panels = {"waiting"} /\ df.rows = <<>> /\ pollPc = "tick"))
  /\ [][(pollPc = "predictor" /\ pollPc' # "predictor") =>
           IF df.rows = <<>>
           THEN pollPc' = "tick" /\ panels' = {"waiting"}
           ELSE pollPc' = "serve" /\ panels' = {}]_vars

\* C18, witness: a tick that waited although the file has a data line, its
\* timestamp being no time
C18_Witness ==
  /\ pollPc = "tick"
  /\ panels = {"waiting"}
  /\ Len(readLines) > 1
  /\ df.rows = <<>>

\* the greatest element of a non-empty set of numbers
MaxOf(S) == CHOOSE i \in S : \A j \in S : j <= i

\* C19: the row a serving tick shows as the latest has the greatest timestamp
\* of the frame, and of the rows that have it, it is the one that is last in
\* the file.
C19_LatestIsLastOfStableSort ==
  (pollPc \in {"viewer", "whatif"} /\ df.err = "none" /\ df.rows # <<>>) =>
     latest = df.rows[MaxOf(NewestRows(df))]

====
